---- MODULE Spec2Model ----
(***************************************************************************)
(* A model of the ETL pipeline of src/1_postgresql/etl.py: file discovery  *)
(* (os.walk + glob), the song and log extractors, the per-file commit loop *)
(* of process_data, and main.                                              *)
(*                                                                         *)
(* File and directory names are sequences of one-character strings, a path *)
(* is a sequence of names.  A directory is the sequence of its entries in  *)
(* the order os.scandir returns them.                                      *)
(***************************************************************************)
EXTENDS Integers, Sequences, FiniteSets, TLC

VARIABLES
    songTree,     \* the directory tree under 'data/song_data'
    logTree,      \* the directory tree under 'data/log_data'
    pc,           \* position in main / process_data
    pl,           \* the pipeline process_data runs for: "song" or "log"
    all_files,    \* process_data: all_files
    num_files,    \* process_data: num_files
    i,            \* process_data: index of the file being processed (1-based)
    datafile,     \* process_data: the path handed to func
    raw,          \* the objects pd.read_json returned for the current file
    df,           \* the extractor's data frame rows (after filter and derivation)
    ipc,          \* position inside the extractor func
    j,            \* loop index inside the extractor (1-based row number)
    results,      \* process_log_file: results of the last cur.fetchone()
    db,           \* rows of songs and artists visible to the session
    uncommitted,  \* statements executed since the last commit
    durable,      \* statements made durable by a commit
    trace,        \* every call made on cur / conn / print, in order (no parameters)
    calls         \* the cur.execute calls of the current file, with parameters

vars == <<songTree, logTree, pc, pl, all_files, num_files, i, datafile, raw, df, ipc, j,
          results, db, uncommitted, durable, trace, calls>>

(***************************************************************************)
(* Bounds of the model.                                                    *)
(***************************************************************************)
MaxFiles == 2      \* data files per pipeline in the pipeline specification
MaxEvents == 2     \* events per log file
MaxObjs == 2       \* objects per song file
MaxEntries == 2    \* entries per directory in the discovery specification
MaxDepth == 1      \* directory nesting in the discovery specification
TsDays == 40       \* days on each side of a probed date in the time specification

None == "None"

(***************************************************************************)
(* Sequence helpers.                                                       *)
(***************************************************************************)
RECURSIVE Flatten(_)
Flatten(ss) == IF ss = <<>> THEN <<>> ELSE Head(ss) \o Flatten(Tail(ss))

Front(s) == SubSeq(s, 1, Len(s) - 1)

Last(s) == s[Len(s)]

Map(s, Op(_)) == [k \in 1..Len(s) |-> Op(s[k])]

Filter(s, Keep(_)) ==
    LET F[k \in 0..Len(s)] ==
            IF k = 0 THEN <<>>
            ELSE IF Keep(s[k]) THEN Append(F[k - 1], s[k]) ELSE F[k - 1]
    IN  F[Len(s)]

SeqsUpTo(S, n) == UNION {[1..k -> S] : k \in 0..n}

(***************************************************************************)
(* Names.                                                                  *)
(***************************************************************************)
JsonExt == <<".", "j", "s", "o", "n">>

JsonPattern == <<"*">> \o JsonExt                           \* '*.json'

DataDir == <<"d", "a", "t", "a">>

SongRoot == <<DataDir, <<"s", "o", "n", "g", "_", "d", "a", "t", "a">>>>

LogRoot == <<DataDir, <<"l", "o", "g", "_", "d", "a", "t", "a">>>>

Cwd == <<<<"/">>, <<"h", "o", "m", "e">>>>

Root(p) == IF p = "song" THEN SongRoot ELSE LogRoot

(***************************************************************************)
(* fnmatch.fnmatch on a name: '*', '?', '[seq]' and '[!seq]'; a '[' with    *)
(* no closing ']' is a literal.  Ranges (a-z) are not modelled: no name of *)
(* the model holds a '-'.                                                  *)
(***************************************************************************)
RECURSIVE ClassEnd(_, _)
ClassEnd(pat, k) ==
    IF k > Len(pat) \/ pat[k] = "]" THEN k ELSE ClassEnd(pat, k + 1)

\* index of the ']' closing the class opened at pat[k] = '[', or > Len(pat)
ClassClose(pat, k) ==
    LET a == IF k + 1 <= Len(pat) /\ pat[k + 1] = "!" THEN k + 2 ELSE k + 1
        b == IF a <= Len(pat) /\ pat[a] = "]" THEN a + 1 ELSE a
    IN  ClassEnd(pat, b)

InClass(c, pat, k, close) ==
    LET neg == pat[k + 1] = "!"
        from == IF neg THEN k + 2 ELSE k + 1
        hit == \E m \in from..(close - 1) : pat[m] = c
    IN  IF neg THEN ~hit ELSE hit

RECURSIVE FnMatchFrom(_, _, _, _)
FnMatchFrom(name, n, pat, k) ==
    IF k > Len(pat) THEN n > Len(name)
    ELSE IF pat[k] = "*"
         THEN \E m \in n..(Len(name) + 1) : FnMatchFrom(name, m, pat, k + 1)
    ELSE IF pat[k] = "?"
         THEN n <= Len(name) /\ FnMatchFrom(name, n + 1, pat, k + 1)
    ELSE IF pat[k] = "[" /\ ClassClose(pat, k) <= Len(pat)
         THEN /\ n <= Len(name)
              /\ InClass(name[n], pat, k, ClassClose(pat, k))
              /\ FnMatchFrom(name, n + 1, pat, ClassClose(pat, k) + 1)
    ELSE /\ n <= Len(name)
         /\ name[n] = pat[k]
         /\ FnMatchFrom(name, n + 1, pat, k + 1)

FnMatch(name, pat) == FnMatchFrom(name, 1, pat, 1)

\* glob.has_magic on one path component, and on a path
HasMagic(name) == \E k \in 1..Len(name) : name[k] \in {"*", "?", "["}

HasMagicPath(p) == \E k \in 1..Len(p) : HasMagic(p[k])

\* glob._ishidden
IsHidden(name) == Len(name) > 0 /\ name[1] = "."

(***************************************************************************)
(* The directory tree: a listing is a sequence of entries                  *)
(* [name, kind, sub]; sub is the listing of a directory.                   *)
(***************************************************************************)
File(name) == [name |-> name, kind |-> "file", sub |-> <<>>]

Dir(name, sub) == [name |-> name, kind |-> "dir", sub |-> sub]

\* the entries of the directory at path p below the listing, <<>> when p is
\* no directory (glob1 swallows the OSError of os.scandir)
RECURSIVE Listing(_, _)
Listing(tree, p) ==
    IF p = <<>> THEN tree
    ELSE LET hit == {k \in 1..Len(tree) :
                        tree[k].name = Head(p) /\ tree[k].kind = "dir"}
         IN  IF hit = {} THEN <<>>
             ELSE Listing(tree[CHOOSE k \in hit : TRUE].sub, Tail(p))

\* os.path.lexists of the path p below the tree
Exists(tree, p) ==
    \/ p = <<>>
    \/ \E k \in 1..Len(Listing(tree, Front(p))) :
           Listing(tree, Front(p))[k].name = Last(p)

\* os.walk(top), top-down: the directories in the order they are yielded
RECURSIVE Walk(_, _)
Walk(tree, p) ==
    LET subdirs == Filter(Listing(tree, p), LAMBDA e : e.kind = "dir")
    IN  <<p>> \o Flatten([k \in 1..Len(subdirs) |->
                             Walk(tree, p \o <<subdirs[k].name>>)])

\* glob._glob1: the names in directory d that match the pattern
Glob1(tree, d, pat, dironly) ==
    LET shown == Filter(Listing(tree, d),
                        LAMBDA e : /\ (dironly => e.kind = "dir")
                                   /\ (IsHidden(pat) \/ ~IsHidden(e.name)))
    IN  Map(Filter(shown, LAMBDA e : FnMatch(e.name, pat)), LAMBDA e : e.name)

\* glob._glob0: a literal last component
Glob0(tree, d, base) ==
    IF Exists(tree, d \o <<base>>) THEN <<base>> ELSE <<>>

\* glob._iglob on the path pattern p (relative to the root of the tree,
\* whose own path holds no magic character)
RECURSIVE Glob(_, _, _)
Glob(tree, p, dironly) ==
    IF ~HasMagicPath(p)
    THEN IF Exists(tree, p) THEN <<p>> ELSE <<>>
    ELSE LET dirname == Front(p)
             basename == Last(p)
             dirs == IF HasMagicPath(dirname) THEN Glob(tree, dirname, TRUE)
                     ELSE <<dirname>>
             In(d) == LET names == IF HasMagic(basename)
                                   THEN Glob1(tree, d, basename, dironly)
                                   ELSE Glob0(tree, d, basename)
                      IN  [k \in 1..Len(names) |-> d \o <<names[k]>>]
         IN  Flatten([k \in 1..Len(dirs) |-> In(dirs[k])])

\* os.path.abspath(os.path.join(root, ...)) of a path below the root
AbsPath(top, p) == Cwd \o top \o p

\* process_data, lines 102-106: the list all_files
Discovery(tree, top) ==
    LET roots == Walk(tree, <<>>)
        found == [k \in 1..Len(roots) |-> Glob(tree, roots[k] \o <<JsonPattern>>, FALSE)]
    IN  Map(Flatten(found), LAMBDA f : AbsPath(top, f))

(***************************************************************************)
(* The directory trees the specifications start from.                      *)
(***************************************************************************)
NoteName == <<"n", ".", "t", "x", "t">>

Digits == <<"1", "2", "3", "4", "5", "6", "7", "8", "9">>

DataFileName(k) == <<Digits[k]>> \o JsonExt

\* n data files: the first in the root, the others in the subdirectory 'a'
MainTree(n) ==
    <<File(NoteName)>>
    \o (IF n >= 1 THEN <<File(DataFileName(1))>> ELSE <<>>)
    \o <<Dir(<<"a">>, [k \in 1..(IF n >= 1 THEN n - 1 ELSE 0) |-> File(DataFileName(k + 1))])>>

MainTrees == {MainTree(n) : n \in 0..MaxFiles}

WalkDirNames == {<<"a">>, <<"[", "a", "]">>}

WalkFileNames == {<<"s">> \o JsonExt, <<".", "h">> \o JsonExt, NoteName}

DistinctNames(l) == \A a, b \in 1..Len(l) : l[a].name = l[b].name => a = b

RECURSIVE Listings(_)
Listings(depth) ==
    LET entries == {File(n) : n \in WalkFileNames}
                   \cup (IF depth = 0 THEN {}
                         ELSE {Dir(n, s) : n \in WalkDirNames, s \in Listings(depth - 1)})
    IN  {l \in SeqsUpTo(entries, MaxEntries) : DistinctNames(l)}

WalkTrees == Listings(MaxDepth)

(***************************************************************************)
(* Time.  ts is epoch milliseconds, held as [s, ms] with                   *)
(* ts = s * 1000 + ms and 0 <= ms < 1000 (the model checker's integers are *)
(* 32 bits wide, epoch milliseconds are not).                              *)
(***************************************************************************)
Ts(s, ms) == [s |-> s, ms |-> ms]

IsLeap(y) == y % 4 = 0 /\ (y % 100 # 0 \/ y % 400 = 0)

DaysPerMonth(y) ==
    <<31, IF IsLeap(y) THEN 29 ELSE 28, 31, 30, 31, 30, 31, 31, 30, 31, 30, 31>>

\* the year and the day within the year of a day number (days since
\* 1970-01-01), by 400-, 100-, 4- and 1-year cycles from the year 2000
DaysToYearsDays(days) ==
    LET d0 == days - (365 * 30 + 7)
        per400 == 400 * 365 + 100 - 4 + 1
        y0 == 400 * (d0 \div per400)
        d1 == d0 % per400
        y1 == IF d1 >= 366 THEN y0 + 100 * ((d1 - 1) \div (100 * 365 + 25 - 1)) ELSE y0
        d2 == IF d1 >= 366 THEN (d1 - 1) % (100 * 365 + 25 - 1) ELSE d1
        y2 == IF d1 >= 366 /\ d2 >= 365 THEN y1 + 4 * ((d2 + 1) \div (4 * 365 + 1)) ELSE y1
        d3 == IF d1 >= 366 /\ d2 >= 365 THEN (d2 + 1) % (4 * 365 + 1) ELSE d2
        y3 == IF d1 >= 366 /\ d2 >= 365 /\ d3 >= 366 THEN y2 + (d3 - 1) \div 365 ELSE y2
        d4 == IF d1 >= 366 /\ d2 >= 365 /\ d3 >= 366 THEN (d3 - 1) % 365 ELSE d3
    IN  [year |-> y3 + 2000, yday |-> d4]

RECURSIVE MonthDay(_, _, _)
MonthDay(y, m, d) ==
    IF d < DaysPerMonth(y)[m] THEN [month |-> m, day |-> d + 1]
    ELSE MonthDay(y, m + 1, d - DaysPerMonth(y)[m])

\* pd.to_datetime(ts, unit='ms'): the timestamp, as its UTC calendar fields
ToDatetime(ts) ==
    LET days == ts.s \div 86400
        secs == ts.s % 86400
        yd == DaysToYearsDays(days)
        md == MonthDay(yd.year, 1, yd.yday)
    IN  [year |-> yd.year, month |-> md.month, day |-> md.day,
         hour |-> secs \div 3600, minute |-> (secs % 3600) \div 60,
         second |-> secs % 60, microsecond |-> ts.ms * 1000]

\* datetime._days_before_year, _days_before_month, _ymd2ord
DaysBeforeYear(y) ==
    (y - 1) * 365 + (y - 1) \div 4 - (y - 1) \div 100 + (y - 1) \div 400

DaysBeforeMonth(y, m) ==
    <<0, 31, 59, 90, 120, 151, 181, 212, 243, 273, 304, 334>>[m]
    + (IF m > 2 /\ IsLeap(y) THEN 1 ELSE 0)

Ymd2Ord(y, m, d) == DaysBeforeYear(y) + DaysBeforeMonth(y, m) + d

\* datetime.date.weekday(): Monday is 0
WeekdayMutantNoShift(y, m, d) == Ymd2Ord(y, m, d) % 7

WeekdayOf(y, m, d) == (Ymd2Ord(y, m, d) + 6) % 7

\* datetime.date(y, m, d).strftime("%A"): tm_wday counts from Sunday
DayNames == <<"Sunday", "Monday", "Tuesday", "Wednesday", "Thursday", "Friday", "Saturday">>

WeekDayName(t) == DayNames[((WeekdayOf(t.year, t.month, t.day) + 1) % 7) + 1]

\* datetime._isoweek1monday
IsoWeek1Monday(y) ==
    LET firstday == Ymd2Ord(y, 1, 1)
        firstweekday == (firstday + 6) % 7
        week1monday == firstday - firstweekday
    IN  IF firstweekday > 3 THEN week1monday + 7 ELSE week1monday

\* datetime.date(y, m, d).isocalendar()[1]
IsoWeek(t) ==
    LET today == Ymd2Ord(t.year, t.month, t.day)
        week == (today - IsoWeek1Monday(t.year)) \div 7
    IN  IF week < 0 THEN (today - IsoWeek1Monday(t.year - 1)) \div 7 + 1
        ELSE IF week >= 52 /\ today >= IsoWeek1Monday(t.year + 1) THEN 1
        ELSE week + 1

(***************************************************************************)
(* The calls the program makes.                                            *)
(***************************************************************************)
\* an entry of trace: op is the call, p the pipeline, f the index of the file
\* being processed (0 outside the loop), n a count the call prints
Ev(op, p, f, n, stmt) == [op |-> op, pl |-> p, f |-> f, n |-> n, stmt |-> stmt]

TreeOf(p) == IF p = "song" THEN songTree ELSE logTree

(***************************************************************************)
(* main and process_data.                                                  *)
(***************************************************************************)
InitRun ==
    /\ pc = "discover"
    /\ pl = "song"
    /\ all_files = <<>>
    /\ num_files = 0
    /\ i = 0
    /\ datafile = <<>>
    /\ raw = <<>>
    /\ df = <<>>
    /\ ipc = "idle"
    /\ j = 0
    /\ results = <<>>
    /\ db = [songs |-> {}, artists |-> {}]
    /\ uncommitted = 0
    /\ durable = 0
    /\ trace = <<>>
    /\ calls = <<>>

Init ==
    /\ songTree \in MainTrees
    /\ logTree \in MainTrees
    /\ InitRun

\* process_data, lines 101-110: walk, glob, count, print the total
Discover ==
    /\ pc = "discover"
    /\ all_files' = Discovery(TreeOf(pl), Root(pl))
    /\ num_files' = Len(all_files')
    /\ trace' = Append(trace, Ev("print_found", pl, 0, num_files', ""))
    /\ i' = 1
    /\ pc' = "loop"
    /\ UNCHANGED <<songTree, logTree, datafile, pl, raw, df, ipc, j, results, db,
                   uncommitted, durable, calls>>

(***************************************************************************)
(* The data the files hold.  A field that may be null is a string; None is *)
(* the null value.                                                         *)
(***************************************************************************)
ExampleTs == Ts(1541109954, 796)               \* 1541109954796

OtherTs == Ts(1541106106, 796)                 \* 1541106106796

Song1 ==
    [song_id |-> "SOZCTXZ12AB0182364", title |-> "Setanta matins",
     artist_id |-> "AR5KOSW1187FB35FF4", year |-> 0, duration |-> "269.58312",
     artist_name |-> "Elena", artist_location |-> "Dubai UAE",
     artist_latitude |-> "49.80388", artist_longitude |-> "15.47491"]

Song2 ==
    [song_id |-> "SOMZWCG12A8C13C480", title |-> "I Didn't Mean To",
     artist_id |-> "ARD7TVE1187B99BFB1", year |-> 1999, duration |-> "218.93179",
     artist_name |-> "Casual", artist_location |-> "California - LA",
     artist_latitude |-> None, artist_longitude |-> None]

SongObjects == {Song1, Song2}

Event1 ==
    [ts |-> ExampleTs, page |-> "NextSong", userId |-> 8, firstName |-> "Kaylee",
     lastName |-> "Summers", gender |-> "F", level |-> "free",
     song |-> "Setanta matins", artist |-> "Elena", length |-> "269.58312",
     sessionId |-> 139, location |-> "Phoenix-Mesa-Scottsdale, AZ",
     userAgent |-> "Mozilla/5.0"]

Event2 ==
    [ts |-> OtherTs, page |-> "NextSong", userId |-> 10, firstName |-> "Sylvie",
     lastName |-> "Cruz", gender |-> "F", level |-> "paid",
     song |-> "You Gotta Be", artist |-> "Des'ree", length |-> "246.30812",
     sessionId |-> 9, location |-> "Washington-Arlington-Alexandria, DC",
     userAgent |-> "Safari/537.77"]

Event3 ==
    [ts |-> ExampleTs, page |-> "Home", userId |-> 8, firstName |-> "Kaylee",
     lastName |-> "Summers", gender |-> "F", level |-> "free",
     song |-> None, artist |-> None, length |-> None,
     sessionId |-> 139, location |-> "Phoenix-Mesa-Scottsdale, AZ",
     userAgent |-> "Mozilla/5.0"]

Events == {Event1, Event2, Event3}

SongContents == SeqsUpTo(SongObjects, MaxObjs)

LogContents == SeqsUpTo(Events, MaxEvents)

(***************************************************************************)
(* The warehouse: the statements of sql_queries act on it.                 *)
(***************************************************************************)
\* the effect of an insert into songs or artists on the rows the session sees
ApplyInsert(d, stmt, params) ==
    IF stmt = "song_table_insert"
    THEN [d EXCEPT !.songs = @ \cup
             {[song_id |-> params[1], title |-> params[2], artist_id |-> params[3],
               year |-> params[4], duration |-> params[5]]}]
    ELSE IF stmt = "artist_table_insert"
    THEN [d EXCEPT !.artists = @ \cup
             {[artist_id |-> params[1], name |-> params[2], location |-> params[3],
               latitude |-> params[4], longitude |-> params[5]]}]
    ELSE d

\* song_select: the (song_id, artist_id) rows for a title, an artist name and
\* a duration
SongSelectRows(d, params) ==
    {<<q[1].song_id, q[2].artist_id>> :
        q \in {r \in d.songs \X d.artists :
                  /\ r[1].artist_id = r[2].artist_id
                  /\ r[1].title = params[1]
                  /\ r[2].name = params[2]
                  /\ r[1].duration = params[3]}}

\* cur.fetchone(): a row of the result, or <<>> when there is none
FetchOne(rows) == IF rows = {} THEN {<<>>} ELSE rows

(***************************************************************************)
(* process_song_file.                                                      *)
(***************************************************************************)
\* line 24: df[[...]].values[0].tolist()
SongDataLastRow(frame) ==
    <<frame[Len(frame)].song_id, frame[Len(frame)].title, frame[Len(frame)].artist_id,
      frame[Len(frame)].year, frame[Len(frame)].duration>>

SongData(frame) ==
    <<frame[1].song_id, frame[1].title, frame[1].artist_id, frame[1].year,
      frame[1].duration>>

\* line 28
ArtistData(frame) ==
    <<frame[1].artist_id, frame[1].artist_name, frame[1].artist_location,
      frame[1].artist_latitude, frame[1].artist_longitude>>

(***************************************************************************)
(* process_log_file.                                                       *)
(***************************************************************************)
\* line 49: df[df['page'] == "NextSong"]
FilterKeepAll(events) == events

FilterNextSong(events) == Filter(events, LAMBDA e : e.page = "NextSong")

\* lines 52-62: the columns week, week_day and start_time added to a row
Derive(e) ==
    [ev |-> e,
     week |-> IsoWeek(ToDatetime(e.ts)),
     week_day |-> WeekDayName(ToDatetime(e.ts)),
     start_time |-> ToDatetime(e.ts)]

\* lines 59-61 and 65: list(row) of a row of time_df
TimeData(row) ==
    LET t == ToDatetime(row.ev.ts)
    IN  <<t, t.hour, t.day, row.week, t.month, t.year, row.week_day>>

\* line 68
UserData(row) ==
    <<row.ev.userId, row.ev.firstName, row.ev.lastName, row.ev.gender, row.ev.level>>

\* line 78
SelectParams(row) == <<row.ev.song, row.ev.artist, row.ev.length>>

\* lines 81-84
SongIdOf(res) == IF res # <<>> THEN res[1] ELSE None

ArtistIdMutantDropped(res) == None

ArtistIdOf(res) == IF res # <<>> THEN res[2] ELSE None

\* line 86
SongplayDataRawTs(row, res) ==
    <<row.ev.ts, row.ev.userId, row.ev.level, SongIdOf(res), ArtistIdOf(res),
      row.ev.sessionId, row.ev.location, row.ev.userAgent>>

SongplayData(row, res) ==
    <<row.start_time, row.ev.userId, row.ev.level, SongIdOf(res), ArtistIdOf(res),
      row.ev.sessionId, row.ev.location, row.ev.userAgent>>

(***************************************************************************)
(* The steps of process_data's loop and of the extractors.                 *)
(***************************************************************************)
Call(stmt, params, res) == [stmt |-> stmt, params |-> params, result |-> res]

\* where an extractor that has m rows goes after the statement at (at, k)
AfterMutantRowByRow(at, k, m) ==
    IF at = "open" THEN (IF m = 0 THEN <<"return", 0>> ELSE <<"time_loop", 1>>)
    ELSE IF at = "time_loop" THEN <<"user_loop", k>>
    ELSE IF at = "user_loop" THEN <<"select", k>>
    ELSE IF at = "select" THEN <<"songplay_insert", k>>
    ELSE IF at = "songplay_insert" THEN (IF k < m THEN <<"time_loop", k + 1>> ELSE <<"return", 0>>)
    ELSE IF at = "song_insert" THEN <<"artist_insert", 1>>
    ELSE <<"return", 0>>

After(at, k, m) ==
    IF at = "open" THEN (IF m = 0 THEN <<"return", 0>> ELSE <<"time_loop", 1>>)
    ELSE IF at = "time_loop" THEN (IF k < m THEN <<"time_loop", k + 1>> ELSE <<"user_loop", 1>>)
    ELSE IF at = "user_loop" THEN (IF k < m THEN <<"user_loop", k + 1>> ELSE <<"select", 1>>)
    ELSE IF at = "select" THEN <<"songplay_insert", k>>
    ELSE IF at = "songplay_insert" THEN (IF k < m THEN <<"select", k + 1>> ELSE <<"return", 0>>)
    ELSE IF at = "song_insert" THEN <<"artist_insert", 1>>
    ELSE <<"return", 0>>

\* the statement name and the parameters of the cur.execute at the position
StmtAt ==
    IF ipc = "song_insert" THEN <<"song_table_insert", SongData(df)>>
    ELSE IF ipc = "artist_insert" THEN <<"artist_table_insert", ArtistData(df)>>
    ELSE IF ipc = "time_loop" THEN <<"time_table_insert", TimeData(df[j])>>
    ELSE IF ipc = "user_loop" THEN <<"user_table_insert", UserData(df[j])>>
    ELSE IF ipc = "select" THEN <<"song_select", SelectParams(df[j])>>
    ELSE <<"songplay_table_insert", SongplayData(df[j], results)>>

\* process_song_file, line 21, entered from line 114
OpenSongFile ==
    /\ pc = "loop" /\ pl = "song" /\ i <= num_files
    /\ datafile' = all_files[i]
    /\ \E content \in SongContents \ {<<>>} :
          /\ raw' = content
          /\ df' = content
    /\ pc' = "func"
    /\ ipc' = "song_insert"
    /\ j' = 1
    /\ calls' = <<>>
    /\ results' = <<>>
    /\ UNCHANGED <<songTree, logTree, pl, all_files, num_files, i, db,
                   uncommitted, durable, trace>>

\* process_log_file, lines 46-62, entered from line 114, on a file that
\* holds one of the contents
OpenLogFileWith(contents) ==
    /\ pc = "loop" /\ pl = "log" /\ i <= num_files
    /\ datafile' = all_files[i]
    /\ \E content \in contents :
          /\ raw' = content
          /\ df' = Map(FilterNextSong(content), Derive)
    /\ pc' = "func"
    /\ ipc' = After("open", 0, Len(df'))[1]
    /\ j' = After("open", 0, Len(df'))[2]
    /\ calls' = <<>>
    /\ results' = <<>>
    /\ UNCHANGED <<songTree, logTree, pl, all_files, num_files, i, db,
                   uncommitted, durable, trace>>

OpenLogFile == OpenLogFileWith(LogContents \ {<<>>})

\* a file with no object: line 24 (no row 0) or line 49 (no column 'page')
\* raises, and nothing catches it
OpenRaises ==
    /\ pc = "loop" /\ i <= num_files
    /\ datafile' = all_files[i]
    /\ raw' = <<>>
    /\ df' = <<>>
    /\ calls' = <<>>
    /\ pc' = "aborted"
    /\ UNCHANGED <<songTree, logTree, pl, all_files, num_files, i, ipc, j, results,
                   db, uncommitted, durable, trace>>

ExecuteInsertMutantCommits ==
    /\ pc = "func"
    /\ ipc \in {"song_insert", "artist_insert", "time_loop", "user_loop", "songplay_insert"}
    /\ trace' = trace \o <<Ev("execute", pl, i, 0, StmtAt[1]), Ev("commit", pl, i, 0, "")>>
    /\ calls' = Append(calls, Call(StmtAt[1], StmtAt[2], <<>>))
    /\ db' = ApplyInsert(db, StmtAt[1], StmtAt[2])
    /\ durable' = durable + uncommitted + 1
    /\ uncommitted' = 0
    /\ ipc' = After(ipc, j, Len(df))[1]
    /\ j' = After(ipc, j, Len(df))[2]
    /\ UNCHANGED <<songTree, logTree, datafile, pc, pl, all_files, num_files, i, raw, df,
                   results>>

\* a cur.execute that succeeds: lines 25, 29, 65, 72, 87
ExecuteInsert ==
    /\ pc = "func"
    /\ ipc \in {"song_insert", "artist_insert", "time_loop", "user_loop", "songplay_insert"}
    /\ trace' = Append(trace, Ev("execute", pl, i, 0, StmtAt[1]))
    /\ calls' = Append(calls, Call(StmtAt[1], StmtAt[2], <<>>))
    /\ db' = ApplyInsert(db, StmtAt[1], StmtAt[2])
    /\ uncommitted' = uncommitted + 1
    /\ ipc' = After(ipc, j, Len(df))[1]
    /\ j' = After(ipc, j, Len(df))[2]
    /\ UNCHANGED <<songTree, logTree, datafile, pc, pl, all_files, num_files, i, raw, df,
                   results, durable>>

\* lines 78-79: the lookup and cur.fetchone()
ExecuteSelect ==
    /\ pc = "func"
    /\ ipc = "select"
    /\ \E res \in FetchOne(SongSelectRows(db, StmtAt[2])) :
          /\ results' = res
          /\ calls' = Append(calls, Call(StmtAt[1], StmtAt[2], res))
    /\ trace' = Append(trace, Ev("execute", pl, i, 0, StmtAt[1]))
    /\ uncommitted' = uncommitted + 1
    /\ ipc' = After(ipc, j, Len(df))[1]
    /\ j' = After(ipc, j, Len(df))[2]
    /\ UNCHANGED <<songTree, logTree, datafile, pc, pl, all_files, num_files, i, raw, df,
                   db, durable>>

ExecuteRaisesMutantSkipsFile ==
    /\ pc = "func"
    /\ ipc # "return"
    /\ trace' = Append(trace, Ev("execute_raised", pl, i, 0, StmtAt[1]))
    /\ pc' = "loop"
    /\ i' = i + 1
    /\ ipc' = "idle"
    /\ UNCHANGED <<songTree, logTree, datafile, pl, all_files, num_files, raw, df, j,
                   results, db, uncommitted, durable, calls>>

\* a cur.execute that raises: nothing in the extractor, process_data or main
\* catches it
ExecuteRaises ==
    /\ pc = "func"
    /\ ipc # "return"
    /\ trace' = Append(trace, Ev("execute_raised", pl, i, 0, StmtAt[1]))
    /\ pc' = "aborted"
    /\ UNCHANGED <<songTree, logTree, datafile, pl, all_files, num_files, i, raw, df, ipc, j,
                   results, db, uncommitted, durable, calls>>

\* lines 115-116: the extractor returned; commit and report progress
Commit ==
    /\ pc = "func"
    /\ ipc = "return"
    /\ trace' = trace \o <<Ev("commit", pl, i, 0, ""), Ev("print_progress", pl, i, num_files, "")>>
    /\ durable' = durable + uncommitted
    /\ uncommitted' = 0
    /\ i' = i + 1
    /\ pc' = "loop"
    /\ ipc' = "idle"
    /\ UNCHANGED <<songTree, logTree, datafile, pl, all_files, num_files, raw, df, j, results,
                   db, calls>>

\* line 123 to line 124: process_data returns, its locals are gone, and main
\* calls it for the logs
NextPipeline ==
    /\ pc = "loop" /\ pl = "song" /\ i > num_files
    /\ pl' = "log"
    /\ pc' = "discover"
    /\ all_files' = <<>>
    /\ num_files' = 0
    /\ i' = 0
    /\ datafile' = <<>>
    /\ raw' = <<>>
    /\ df' = <<>>
    /\ calls' = <<>>
    /\ UNCHANGED <<songTree, logTree, ipc, j, results, db, uncommitted, durable, trace>>

CloseMutantInsideLoop ==
    /\ pc = "loop" /\ pl = "log"
    /\ trace' = Append(trace, Ev("close", "main", 0, 0, ""))
    /\ pc' = "done"
    /\ UNCHANGED <<songTree, logTree, datafile, pl, all_files, num_files, i, raw, df, ipc, j,
                   results, db, uncommitted, durable, calls>>

\* line 126: the log pipeline returned; conn.close()
Close ==
    /\ pc = "loop" /\ pl = "log" /\ i > num_files
    /\ trace' = Append(trace, Ev("close", "main", 0, 0, ""))
    /\ pc' = "done"
    /\ UNCHANGED <<songTree, logTree, datafile, pl, all_files, num_files, i, raw, df, ipc, j,
                   results, db, uncommitted, durable, calls>>

Next ==
    \/ Discover
    \/ OpenSongFile
    \/ OpenLogFile
    \/ OpenRaises
    \/ ExecuteInsert
    \/ ExecuteSelect
    \/ ExecuteRaises
    \/ Commit
    \/ NextPipeline
    \/ Close

Spec == Init /\ [][Next]_vars

(***************************************************************************)
(* Discovery alone, over trees with hidden files, other suffixes and       *)
(* directory names that hold glob's magic characters.                      *)
(***************************************************************************)
InitWalk ==
    /\ songTree \in WalkTrees
    /\ logTree = <<>>
    /\ InitRun

NextWalk == Discover

SpecWalk == InitWalk /\ [][NextWalk]_vars

(***************************************************************************)
(* The time derivation alone, over many timestamps: main is about to open  *)
(* its only log file, which holds one NextSong event.                      *)
(***************************************************************************)
ProbeTs == {ExampleTs,
            Ts(951868799, 999),      \* 2000-02-29 23:59:59.999
            Ts(-1, 999),             \* 1969-12-31 23:59:59.999
            Ts(1609459199, 0)}       \* 2020-12-31 23:59:59

TsInputs == {Ts(p.s + 86400 * k, p.ms) : p \in ProbeTs, k \in (0 - TsDays)..TsDays}

ProbeContents == {<<[Event1 EXCEPT !.ts = t]>> : t \in TsInputs}

InitTime ==
    /\ songTree = MainTree(0)
    /\ logTree = MainTree(1)
    /\ pc = "loop"
    /\ pl = "log"
    /\ all_files = Discovery(logTree, LogRoot)
    /\ num_files = 1
    /\ i = 1
    /\ datafile = <<>>
    /\ raw = <<>>
    /\ df = <<>>
    /\ ipc = "idle"
    /\ j = 0
    /\ results = <<>>
    /\ db = [songs |-> {}, artists |-> {}]
    /\ uncommitted = 0
    /\ durable = 0
    /\ trace = <<Ev("print_found", "song", 0, 0, ""), Ev("print_found", "log", 0, 1, "")>>
    /\ calls = <<>>

OpenProbeFile == OpenLogFileWith(ProbeContents)

NextTime ==
    \/ OpenProbeFile
    \/ ExecuteInsert

SpecTime == InitTime /\ [][NextTime]_vars

(***************************************************************************)
(* What the claims speak of.                                               *)
(***************************************************************************)
Idx(s) == 1..Len(s)

IsExec(e) == e.op \in {"execute", "execute_raised"}

\* the positions in trace of the calls made for file f of pipeline p
OfFile(p, f) == {k \in Idx(trace) : trace[k].pl = p /\ trace[k].f = f}

Commits(p) == {k \in Idx(trace) : trace[k].op = "commit" /\ trace[k].pl = p}

\* the total process_data printed for pipeline p, a set with at most one number
Found(p) == {trace[k].n : k \in {m \in Idx(trace) :
                                    trace[m].op = "print_found" /\ trace[m].pl = p}}

PipelineRank(p) == IF p = "song" THEN 1 ELSE IF p = "log" THEN 2 ELSE 3

\* calls, raw and df belong to a file of the log (song) pipeline
InLogFile == pl = "log" /\ (pc \in {"func", "aborted"} \/ i > 1)

InSongFile == pl = "song" /\ (pc \in {"func", "aborted"} \/ i > 1)

\* the extractor returned for the file calls belongs to
Returned == (pc = "func" /\ ipc = "return") \/ (pc \in {"loop", "done"} /\ i > 1)

CallsOf(stmt) == SelectSeq(calls, LAMBDA c : c.stmt = stmt)

NextSongEvents == SelectSeq(raw, LAMBDA e : e.page = "NextSong")

(***************************************************************************)
(* process_data: one commit per file.                                      *)
(***************************************************************************)
\* the files that have a statement among trace[lo..hi]
ExecFiles(lo, hi) ==
    {<<trace[k].pl, trace[k].f>> : k \in {m \in lo..hi : IsExec(trace[m])}}

\* C1: files are processed in the order of the discovered list; commit is
\* called once per file, after every statement of that file and before any
\* statement of the next; no commit falls between two statements of one
\* file; when process_data has gone through the list without an error the
\* commits are as many as the files discovered.
C1_OneCommitPerFileInOrder ==
    /\ \A a, b \in Idx(trace) :
          (a < b /\ trace[a].pl = trace[b].pl) => trace[a].f <= trace[b].f \/ trace[b].f = 0
    /\ \A p \in {"song", "log"} :
          /\ \A a, b \in Commits(p) : trace[a].f = trace[b].f => a = b
          /\ \A c \in Commits(p) :
                /\ \A k \in OfFile(p, trace[c].f) : IsExec(trace[k]) => k < c
                /\ \A g \in 1..(trace[c].f - 1) : \E d \in Commits(p) : d < c /\ trace[d].f = g
          /\ \A k \in Idx(trace) :
                (IsExec(trace[k]) /\ trace[k].pl = p) =>
                    \A g \in 1..(trace[k].f - 1) :
                        \E d \in Commits(p) : d < k /\ trace[d].f = g
          /\ ((pl = p /\ pc \in {"loop", "done"} /\ i > num_files) \/ (p = "song" /\ pl = "log"))
                => Found(p) = {Cardinality(Commits(p))}
    /\ (pc = "func" \/ pc = "aborted") =>
          /\ i = Cardinality(Commits(pl)) + 1
          /\ i <= Len(all_files)
          /\ datafile = all_files[i]
    /\ \A b \in Idx(trace) :
          trace[b].op = "commit" =>
              ExecFiles(1, b - 1) \cap ExecFiles(b + 1, Len(trace)) = {}

\* main ran to the end over two log files, the first with statements and the
\* second with none, and committed both
C1_Witness ==
    /\ pc = "done"
    /\ Cardinality(Commits("log")) = 2
    /\ \E k \in OfFile("log", 1) : IsExec(trace[k])
    /\ \A k \in OfFile("log", 2) : ~IsExec(trace[k])

(***************************************************************************)
(* process_data: a statement that fails.                                   *)
(***************************************************************************)
Succeeded(p, f) == {k \in OfFile(p, f) : trace[k].op = "execute"}

SucceededBefore(p, f) ==
    {k \in Idx(trace) :
        /\ trace[k].op = "execute"
        /\ \/ PipelineRank(trace[k].pl) < PipelineRank(p)
           \/ trace[k].pl = p /\ trace[k].f < f}

\* C2: when a statement of file k fails, it is the last call of the run: no
\* later statement, no commit for file k, no rollback, nothing for a later
\* file, no close; the commits of files 1..k-1 stay in effect and the
\* statements of file k stay uncommitted; main ends with the error.
C2_FailureStopsTheRun ==
    \A r \in Idx(trace) :
        trace[r].op = "execute_raised" =>
            /\ r = Len(trace)
            /\ pc = "aborted"
            /\ pl = trace[r].pl /\ i = trace[r].f
            /\ \A k \in Idx(trace) :
                  /\ trace[k].op \notin {"rollback", "close"}
                  /\ ~(trace[k].op \in {"commit", "print_progress"}
                        /\ trace[k].pl = pl /\ trace[k].f = i)
                  /\ ~(trace[k].pl = pl /\ trace[k].f > i)
                  /\ PipelineRank(trace[k].pl) <= PipelineRank(pl)
            /\ \A g \in 1..(i - 1) : \E c \in Commits(pl) : trace[c].f = g
            /\ durable = Cardinality(SucceededBefore(pl, i))
            /\ uncommitted = Cardinality(Succeeded(pl, i))

\* the second log file failed after a statement of its own, the first log
\* file and a song file are committed
C2_Witness ==
    /\ pc = "aborted"
    /\ pl = "log" /\ i = 2
    /\ Last(trace).op = "execute_raised"
    /\ uncommitted > 0
    /\ durable > 2

(***************************************************************************)
(* process_log_file.                                                       *)
(***************************************************************************)
\* C3: the extractor that returned has executed as many time inserts, user
\* inserts and songplay inserts as the file has NextSong events, and at any
\* moment the j-th insert of each group is the one of the j-th NextSong
\* event, so no insert comes from an event of another page.
C3_OneInsertPerNextSongEvent ==
    InLogFile =>
        /\ \A st \in {"time_table_insert", "user_table_insert", "songplay_table_insert"} :
              /\ Len(CallsOf(st)) <= Len(NextSongEvents)
              /\ Returned => Len(CallsOf(st)) = Len(NextSongEvents)
        /\ \A n \in Idx(CallsOf("time_table_insert")) :
              CallsOf("time_table_insert")[n].params[1] = ToDatetime(NextSongEvents[n].ts)
        /\ \A n \in Idx(CallsOf("user_table_insert")) :
              CallsOf("user_table_insert")[n].params =
                  <<NextSongEvents[n].userId, NextSongEvents[n].firstName,
                    NextSongEvents[n].lastName, NextSongEvents[n].gender,
                    NextSongEvents[n].level>>
        /\ \A n \in Idx(CallsOf("songplay_table_insert")) :
              /\ CallsOf("songplay_table_insert")[n].params[2] = NextSongEvents[n].userId
              /\ CallsOf("songplay_table_insert")[n].params[6] = NextSongEvents[n].sessionId
              /\ CallsOf("songplay_table_insert")[n].params[8] = NextSongEvents[n].userAgent

\* a file of two events, the first of another page, has been processed
C3_Witness ==
    /\ InLogFile /\ Returned
    /\ raw = <<Event3, Event2>>
    /\ Len(CallsOf("time_table_insert")) = 1
    /\ Len(CallsOf("user_table_insert")) = 1
    /\ Len(CallsOf("songplay_table_insert")) = 1

StmtGroup(st) ==
    IF st = "time_table_insert" THEN 1 ELSE IF st = "user_table_insert" THEN 2 ELSE 3

\* C4: in the calls of one log file every time insert comes before every
\* user insert, and every user insert before every lookup and every
\* songplay insert.
C4_TimeThenUserThenSongplay ==
    InLogFile =>
        \A a, b \in Idx(calls) : a < b => StmtGroup(calls[a].stmt) <= StmtGroup(calls[b].stmt)

\* a file with two NextSong events has been processed
C4_Witness ==
    /\ InLogFile /\ Returned
    /\ Len(CallsOf("time_table_insert")) = 2
    /\ Len(CallsOf("user_table_insert")) = 2
    /\ Len(CallsOf("songplay_table_insert")) = 2

\* C5: every songplay insert directly follows one lookup on the (song,
\* artist, length) of its event; it carries the ids of the row the lookup
\* returned, or null for both when it returned none; the ids are null
\* together or not at all; a miss neither raises nor skips the event: the
\* extractor goes on to the insert, and when it has returned there are as
\* many lookups as songplay inserts as NextSong events.
C5_LookupThenSongplayInsert ==
    InLogFile =>
        /\ \A k \in Idx(calls) :
              calls[k].stmt = "songplay_table_insert" =>
                  /\ k > 1
                  /\ calls[k - 1].stmt = "song_select"
                  /\ (calls[k - 1].result # <<>> =>
                         /\ calls[k].params[4] = calls[k - 1].result[1]
                         /\ calls[k].params[5] = calls[k - 1].result[2])
                  /\ (calls[k - 1].result = <<>> =>
                         /\ calls[k].params[4] = None
                         /\ calls[k].params[5] = None)
                  /\ (calls[k].params[4] = None <=> calls[k].params[5] = None)
        /\ \A n \in Idx(CallsOf("song_select")) :
              CallsOf("song_select")[n].params =
                  <<NextSongEvents[n].song, NextSongEvents[n].artist, NextSongEvents[n].length>>
        /\ \A k \in Idx(calls) :
              (calls[k].stmt = "song_select" /\ k < Len(calls)) =>
                  calls[k + 1].stmt = "songplay_table_insert"
        /\ (Len(calls) > 0 /\ Last(calls).stmt = "song_select" /\ Last(trace).op = "execute")
              => (pc = "func" /\ ipc = "songplay_insert")
        /\ Returned => /\ Len(CallsOf("song_select")) = Len(NextSongEvents)
                       /\ Len(CallsOf("songplay_table_insert")) = Len(NextSongEvents)

\* one file whose first event found the song loaded from a song file and
\* whose second event found none
C5_Witness ==
    /\ InLogFile /\ Returned
    /\ Len(CallsOf("songplay_table_insert")) = 2
    /\ CallsOf("songplay_table_insert")[1].params[4] = Song1.song_id
    /\ CallsOf("songplay_table_insert")[1].params[5] = Song1.artist_id
    /\ CallsOf("songplay_table_insert")[2].params[4] = None

(***************************************************************************)
(* process_song_file.                                                      *)
(***************************************************************************)
\* C6: the calls of a song file are a prefix of: the song insert with
\* (song_id, title, artist_id, year, duration), then the artist insert with
\* (artist_id, artist_name, artist_location, artist_latitude,
\* artist_longitude), both of the first object of the file; they are exactly
\* these two when the extractor has returned, and the two artist_id agree.
C6_SongThenArtistOfFirstObject ==
    InSongFile =>
        /\ Len(calls) <= 2
        /\ Returned => Len(calls) = 2
        /\ Len(calls) >= 1 =>
              /\ calls[1].stmt = "song_table_insert"
              /\ calls[1].params = <<raw[1].song_id, raw[1].title, raw[1].artist_id,
                                     raw[1].year, raw[1].duration>>
        /\ Len(calls) >= 2 =>
              /\ calls[2].stmt = "artist_table_insert"
              /\ calls[2].params = <<raw[1].artist_id, raw[1].artist_name,
                                     raw[1].artist_location, raw[1].artist_latitude,
                                     raw[1].artist_longitude>>
              /\ calls[1].params[3] = calls[2].params[1]

\* a song file of two different objects has been processed
C6_Witness ==
    /\ InSongFile /\ Returned
    /\ raw = <<Song2, Song1>>
    /\ Len(calls) = 2

(***************************************************************************)
(* The time row.                                                           *)
(***************************************************************************)
\* the day name of the day number of ts, counted from 1970-01-01, a Thursday
DayNameOfEpochDay(ts) ==
    <<"Thursday", "Friday", "Saturday", "Sunday", "Monday", "Tuesday", "Wednesday">>
        [((ts.s \div 86400) % 7) + 1]

WeekdayOfExample(name) ==
    \A n \in Idx(CallsOf("time_table_insert")) :
        NextSongEvents[n].ts = ExampleTs => CallsOf("time_table_insert")[n].params[7] = name

WeekdayIsUtcDayName ==
    \A n \in Idx(CallsOf("time_table_insert")) :
        CallsOf("time_table_insert")[n].params[7] = DayNameOfEpochDay(NextSongEvents[n].ts)

\* C7 as stated: the weekday of a time row is the English name of the UTC
\* day of ts, and it is "Monday" for ts = 1541109954796.
C7_ExampleIsMonday ==
    InLogFile => (WeekdayIsUtcDayName /\ WeekdayOfExample("Monday"))

\* C7, amended: the weekday of a time row is the English name of the UTC
\* day of ts, and it is "Thursday" for ts = 1541109954796 (2018-11-01).
C7_WeekdayIsUtcDayName ==
    InLogFile => (WeekdayIsUtcDayName /\ WeekdayOfExample("Thursday"))

\* the time insert of an event with ts = 1541109954796 has been executed
C7_Witness ==
    /\ InLogFile
    /\ Len(CallsOf("time_table_insert")) = 1
    /\ NextSongEvents[1].ts = ExampleTs
    /\ CallsOf("time_table_insert")[1].params[7] = "Thursday"

(***************************************************************************)
(* main.                                                                   *)
(***************************************************************************)
\* C8: every call of the song pipeline comes before every call of the log
\* pipeline; close is called only when both pipelines have committed all
\* their files, once, and it is the last call.
C8_SongsThenLogsThenClose ==
    /\ \A a, b \in Idx(trace) :
          a < b => PipelineRank(trace[a].pl) <= PipelineRank(trace[b].pl)
    /\ \A k \in Idx(trace) : trace[k].op = "close" => (k = Len(trace) /\ pc = "done")
    /\ pc = "done" =>
          /\ Last(trace).op = "close"
          /\ \A p \in {"song", "log"} : Found(p) = {Cardinality(Commits(p))}
          /\ \A k \in Idx(trace) : trace[k].op # "execute_raised"

\* main ended after a song file and a log file with a lookup
C8_Witness ==
    /\ pc = "done"
    /\ Last(trace).op = "close"
    /\ Commits("song") # {}
    /\ \E k \in Idx(trace) : trace[k].stmt = "song_select"

(***************************************************************************)
(* start_time.                                                             *)
(***************************************************************************)
\* C10: the start_time of the n-th songplay insert of a file equals the
\* start_time of the n-th time insert of the file, which was executed
\* before it.
C10_SongplayStartTimeHasTimeRow ==
    InLogFile =>
        /\ \A n \in Idx(CallsOf("songplay_table_insert")) :
              /\ n <= Len(CallsOf("time_table_insert"))
              /\ CallsOf("songplay_table_insert")[n].params[1] =
                     CallsOf("time_table_insert")[n].params[1]
        /\ \A a, b \in Idx(calls) :
              (calls[a].stmt = "songplay_table_insert" /\ calls[b].stmt = "time_table_insert")
                  => b < a

\* two songplay inserts with different start_time have been executed
C10_Witness ==
    /\ InLogFile
    /\ Len(CallsOf("songplay_table_insert")) = 2
    /\ CallsOf("songplay_table_insert")[1].params[1] # CallsOf("songplay_table_insert")[2].params[1]

(***************************************************************************)
(* Discovery: the claims.                                                  *)
(***************************************************************************)
\* every path below the tree, files and directories
RECURSIVE PathsBelow(_, _)
PathsBelow(l, p) ==
    UNION {{p \o <<l[k].name>>} \cup PathsBelow(l[k].sub, p \o <<l[k].name>>) :
              k \in 1..Len(l)}

\* the paths under the root whose name matches '*.json' (as glob matches a
\* name: fnmatch, and no name that starts with a dot)
MatchingPaths(tree, top) ==
    {AbsPath(top, q) : q \in {r \in PathsBelow(tree, <<>>) :
                                 FnMatch(Last(r), JsonPattern) /\ ~IsHidden(Last(r))}}

NoDuplicates(s) == \A a, b \in 1..Len(s) : s[a] = s[b] => a = b

Range(s) == {s[k] : k \in 1..Len(s)}

\* the directory names of the tree
RECURSIVE DirNamesOf(_)
DirNamesOf(l) ==
    UNION {IF l[k].kind = "dir" THEN {l[k].name} \cup DirNamesOf(l[k].sub) ELSE {} :
              k \in 1..Len(l)}

Discovered == pc # "discover" /\ pl = "song" /\ trace[1].op = "print_found"

\* C9: after the discovery loop, all_files holds every path under the root
\* that matches '*.json' exactly once, and the printed total is the number
\* of distinct matching paths.
C9_EveryMatchListedOnce ==
    Discovered =>
        /\ Range(all_files) = MatchingPaths(songTree, SongRoot)
        /\ NoDuplicates(all_files)
        /\ num_files = Cardinality(MatchingPaths(songTree, SongRoot))
        /\ trace[1].n = Cardinality(MatchingPaths(songTree, SongRoot))

\* C9 restricted to trees none of whose directory names holds one of glob's
\* magic characters: there the list is exact.
C9_ExactWithoutMagicNames ==
    (Discovered /\ \A d \in DirNamesOf(songTree) : ~HasMagic(d)) =>
        /\ Range(all_files) = MatchingPaths(songTree, SongRoot)
        /\ NoDuplicates(all_files)
        /\ num_files = Cardinality(MatchingPaths(songTree, SongRoot))

====
